---------------------------- MODULE Spec2Model ----------------------------
(***************************************************************************)
(* A model of the drone-mission conflict detector                          *)
(* (src/src/conflict/conflict_detector.py) over the mission data model     *)
(* (src/src/models/mission.py).                                            *)
(*                                                                         *)
(* Units.  The detector's tests are homogeneous in length and in time      *)
(* (intersection parameters are ratios, the safety test compares two       *)
(* lengths), so coordinates are counted in grid steps of 50 m and          *)
(* timestamps in steps of 5 minutes after 10:00:00: the waypoint           *)
(* (200, 100) at 10:10 is x = 4, y = 2, timestamp = 2, and the default     *)
(* safety buffer of 50.0 m is 1.                                           *)
(*                                                                         *)
(* Numbers.  The code computes in binary floating point.  The model        *)
(* computes the same expressions exactly: a quotient is a reduced          *)
(* fraction <<n, d>> with d > 0, and the square root of an integer n is    *)
(* the surd [sq |-> n].  Comparisons are the exact ones.  The rounding of  *)
(* timedelta(seconds = ...) to whole microseconds and the %.2f rounding    *)
(* inside the description string are not modelled.                         *)
(*                                                                         *)
(* Optional values (z, timestamp, an intersection) are <<>> for None and   *)
(* <<v>> for a value v.                                                    *)
(***************************************************************************)
EXTENDS Integers, Sequences, FiniteSets, TLC

---------------------------------------------------------------------------
(* Bounds of the explored inputs *)

\* largest grid coordinate of a generated waypoint
MaxCoord == 1
\* largest timestamp of a generated waypoint (and end of the mission window)
MaxT == 1
\* largest safety buffer a detector is constructed with
MaxBuffer == 2
\* largest number of other missions in one call
MaxOthers == 2
\* longest waypoint list a Mission is constructed from
MaxWaypoints == 3
\* longest mission_duration of generate_mission_data, in microseconds
MaxDuration == 4
\* longest time_buffer of generate_mission_data, in microseconds
MaxTimeBuffer == 2

\* safety_buffer: float = 50.0, in grid steps
DefaultSafetyBuffer == 1

---------------------------------------------------------------------------
(* Exact arithmetic *)

None == <<>>

Some(v) == <<v>>

Abs(n) == IF n < 0 THEN -n ELSE n

RECURSIVE GCD(_, _)
GCD(a, b) == IF b = 0 THEN a ELSE GCD(b, a % b)

\* the fraction n / d (d # 0), reduced, with a positive denominator
Rat(n, d) ==
    LET g == GCD(Abs(n), Abs(d))
        s == IF d < 0 THEN -1 ELSE 1
    IN  <<(s * n) \div g, (s * d) \div g>>

\* the root of a perfect square
ISqrt(n) == CHOOSE r \in 0..n : r * r = n

\* np.sqrt of an integer: the surd itself
Sqrt(n) == [sq |-> n]

\* sqrt(n) < b for a surd and an integer b
SurdLess(s, b) == b > 0 /\ s.sq < b * b

---------------------------------------------------------------------------
(* models/mission.py: the data model *)

Waypoint(x, y, z, timestamp) == [x |-> x, y |-> y, z |-> z, timestamp |-> timestamp]

Mission(waypoints, start_time, end_time, drone_id) ==
    [waypoints |-> waypoints, start_time |-> start_time,
     end_time |-> end_time, drone_id |-> drone_id]

\* mutant: x <= 0 or y <= 0, z <= 0
WaypointPostInitRejectsZero(self) ==
    IF self.x <= 0 \/ self.y <= 0 THEN "Coordinates cannot be negative"
    ELSE IF self.z # None /\ self.z[1] <= 0 THEN "Altitude cannot be negative"
    ELSE ""

\* Waypoint.__post_init__: the message of the ValueError it raises, "" when it
\* returns
WaypointPostInit(self) ==
    IF self.x < 0 \/ self.y < 0 THEN "Coordinates cannot be negative"
    ELSE IF self.z # None /\ self.z[1] < 0 THEN "Altitude cannot be negative"
    ELSE ""

\* mutant: an element goes in front of the elements with its own timestamp
RECURSIVE InsertBeforeEqualTimestamps(_, _)
InsertBeforeEqualTimestamps(sorted, wp) ==
    IF sorted = <<>> THEN <<wp>>
    ELSE IF sorted[Len(sorted)].timestamp[1] < wp.timestamp[1] THEN Append(sorted, wp)
    ELSE Append(InsertBeforeEqualTimestamps(SubSeq(sorted, 1, Len(sorted) - 1), wp),
                sorted[Len(sorted)])

\* wp put into a sorted list behind every element whose key is not greater:
\* list.sort is stable
RECURSIVE InsertByTimestamp(_, _)
InsertByTimestamp(sorted, wp) ==
    IF sorted = <<>> THEN <<wp>>
    ELSE IF sorted[Len(sorted)].timestamp[1] <= wp.timestamp[1] THEN Append(sorted, wp)
    ELSE Append(InsertByTimestamp(SubSeq(sorted, 1, Len(sorted) - 1), wp),
                sorted[Len(sorted)])

\* waypoints.sort(key=lambda wp: wp.timestamp)
RECURSIVE SortByTimestamp(_)
SortByTimestamp(waypoints) ==
    IF waypoints = <<>> THEN <<>>
    ELSE InsertByTimestamp(SortByTimestamp(SubSeq(waypoints, 1, Len(waypoints) - 1)),
                           waypoints[Len(waypoints)])

\* all(wp.timestamp is not None for wp in self.waypoints)
AllTimestamped(waypoints) ==
    \A n \in 1..Len(waypoints) : waypoints[n].timestamp # None

\* mutant: end_time < start_time, an empty window is accepted
EndBeforeStart(start_time, end_time) == end_time < start_time

\* self.end_time <= self.start_time
EndNotAfterStart(start_time, end_time) == end_time <= start_time

\* self.start_time <= wp.timestamp <= self.end_time
InsideWindow(timestamp, start_time, end_time) ==
    start_time <= timestamp /\ timestamp <= end_time

\* Mission.__post_init__: the message of the ValueError it raises ("" when it
\* returns) and the waypoint list, which is the caller's list object, as the
\* call leaves it
\* mutant: the timestamps are validated before the list is sorted
MissionPostInitValidateFirst(self) ==
    IF self.waypoints = <<>>
    THEN [error |-> "Mission must have at least one waypoint",
          waypoints |-> self.waypoints]
    ELSE IF EndNotAfterStart(self.start_time, self.end_time)
    THEN [error |-> "End time must be after start time",
          waypoints |-> self.waypoints]
    ELSE IF \E n \in 1..Len(self.waypoints) :
               /\ self.waypoints[n].timestamp # None
               /\ ~InsideWindow(self.waypoints[n].timestamp[1], self.start_time,
                                self.end_time)
    THEN [error |-> "Waypoint timestamp must be within mission time window",
          waypoints |-> self.waypoints]
    ELSE [error |-> "",
          waypoints |-> IF AllTimestamped(self.waypoints)
                        THEN SortByTimestamp(self.waypoints)
                        ELSE self.waypoints]

MissionPostInit(self) ==
    LET sorted == IF AllTimestamped(self.waypoints)
                  THEN SortByTimestamp(self.waypoints)
                  ELSE self.waypoints
    IN  IF self.waypoints = <<>>
        THEN [error |-> "Mission must have at least one waypoint",
              waypoints |-> self.waypoints]
        ELSE IF EndNotAfterStart(self.start_time, self.end_time)
        THEN [error |-> "End time must be after start time",
              waypoints |-> self.waypoints]
        ELSE IF \E n \in 1..Len(sorted) :
                   /\ sorted[n].timestamp # None
                   /\ ~InsideWindow(sorted[n].timestamp[1], self.start_time, self.end_time)
        THEN [error |-> "Waypoint timestamp must be within mission time window",
              waypoints |-> sorted]
        ELSE [error |-> "", waypoints |-> sorted]

\* the mission is one that the two constructors return, as they return it
Constructed(mission) ==
    /\ \A n \in 1..Len(mission.waypoints) : WaypointPostInit(mission.waypoints[n]) = ""
    /\ MissionPostInit(mission) = [error |-> "", waypoints |-> mission.waypoints]

---------------------------------------------------------------------------
(* conflict/conflict_detector.py: the detector's helpers *)

\* mutant: the two drone ids exchanged
ConflictIdsSwapped(location, time, primary_drone, conflicting_drone, distance) ==
    [location |-> location, time |-> time, primary_drone |-> conflicting_drone,
     conflicting_drone |-> primary_drone, distance |-> distance,
     description |-> <<primary_drone, conflicting_drone, location, time, distance>>]

Conflict(location, time, primary_drone, conflicting_drone, distance) ==
    [location |-> location, time |-> time, primary_drone |-> primary_drone,
     conflicting_drone |-> conflicting_drone, distance |-> distance,
     description |-> <<primary_drone, conflicting_drone, location, time, distance>>]

\* a comparison of two timestamps raises TypeError when either is None
CompareRaises(a, b) == a = None \/ b = None

\* _check_temporal_overlap ends in a TypeError: the first comparison meets a
\* None, or it is False and the second comparison meets a None
TemporalOverlapRaises(wp1_start, wp1_end, wp2_start, wp2_end) ==
    \/ CompareRaises(wp1_end.timestamp, wp2_start.timestamp)
    \/ /\ ~(wp1_end.timestamp[1] < wp2_start.timestamp[1])
       /\ CompareRaises(wp2_end.timestamp, wp1_start.timestamp)

\* mutant: only the first half of the test (a segment pair with B1.t < A0.t passes)
TemporalOverlapOneSided(wp1_start, wp1_end, wp2_start, wp2_end) ==
    ~(wp1_end.timestamp[1] < wp2_start.timestamp[1])

\* mutant: <= for <, so intervals that only touch do not overlap
TemporalOverlapExclusive(wp1_start, wp1_end, wp2_start, wp2_end) ==
    ~(\/ wp1_end.timestamp[1] <= wp2_start.timestamp[1]
      \/ wp2_end.timestamp[1] <= wp1_start.timestamp[1])

_check_temporal_overlap(wp1_start, wp1_end, wp2_start, wp2_end) ==
    ~(\/ wp1_end.timestamp[1] < wp2_start.timestamp[1]
      \/ wp2_end.timestamp[1] < wp1_start.timestamp[1])

\* mutant: the second product takes p3 for p2
DenominatorMixed(p1, p2, p3, p4) ==
    (p1[1] - p2[1]) * (p3[2] - p4[2]) - (p1[2] - p3[2]) * (p3[1] - p4[1])

Denominator(p1, p2, p3, p4) ==
    (p1[1] - p2[1]) * (p3[2] - p4[2]) - (p1[2] - p2[2]) * (p3[1] - p4[1])

\* mutant: 0 < n / d < 1, the endpoints do not count
InUnitIntervalOpen(n, d) ==
    IF d > 0 THEN 0 < n /\ n < d ELSE n < 0 /\ d < n

\* 0 <= n / d <= 1
InUnitInterval(n, d) ==
    IF d > 0 THEN 0 <= n /\ n <= d ELSE n <= 0 /\ d <= n

\* mutant: parallel segments are given the primary segment's start as their
\* intersection instead of None
FindIntersectionParallelHit(wp1_start, wp1_end, wp2_start, wp2_end) ==
    LET p1 == <<wp1_start.x, wp1_start.y>>
        p2 == <<wp1_end.x, wp1_end.y>>
        p3 == <<wp2_start.x, wp2_start.y>>
        p4 == <<wp2_end.x, wp2_end.y>>
        denominator == Denominator(p1, p2, p3, p4)
        t == (p1[1] - p3[1]) * (p3[2] - p4[2]) - (p1[2] - p3[2]) * (p3[1] - p4[1])
        u == -((p1[1] - p2[1]) * (p1[2] - p3[2]) - (p1[2] - p2[2]) * (p1[1] - p3[1]))
    IN  IF denominator = 0 THEN Some(<<Rat(p1[1], 1), Rat(p1[2], 1)>>)
        ELSE IF InUnitInterval(t, denominator) /\ InUnitInterval(u, denominator)
        THEN Some(<<Rat(p1[1] * denominator + t * (p2[1] - p1[1]), denominator),
                    Rat(p1[2] * denominator + t * (p2[2] - p1[2]), denominator)>>)
        ELSE None

\* mutant: the point is taken at the other segment's parameter u along the
\* primary segment
FindIntersectionAlongU(wp1_start, wp1_end, wp2_start, wp2_end) ==
    LET p1 == <<wp1_start.x, wp1_start.y>>
        p2 == <<wp1_end.x, wp1_end.y>>
        p3 == <<wp2_start.x, wp2_start.y>>
        p4 == <<wp2_end.x, wp2_end.y>>
        denominator == Denominator(p1, p2, p3, p4)
        t == (p1[1] - p3[1]) * (p3[2] - p4[2]) - (p1[2] - p3[2]) * (p3[1] - p4[1])
        u == -((p1[1] - p2[1]) * (p1[2] - p3[2]) - (p1[2] - p2[2]) * (p1[1] - p3[1]))
    IN  IF denominator = 0 THEN None
        ELSE IF InUnitInterval(t, denominator) /\ InUnitInterval(u, denominator)
        THEN Some(<<Rat(p1[1] * denominator + u * (p2[1] - p1[1]), denominator),
                    Rat(p1[2] * denominator + u * (p2[2] - p1[2]), denominator)>>)
        ELSE None

_find_intersection(wp1_start, wp1_end, wp2_start, wp2_end) ==
    LET p1 == <<wp1_start.x, wp1_start.y>>
        p2 == <<wp1_end.x, wp1_end.y>>
        p3 == <<wp2_start.x, wp2_start.y>>
        p4 == <<wp2_end.x, wp2_end.y>>
        denominator == Denominator(p1, p2, p3, p4)
        t == (p1[1] - p3[1]) * (p3[2] - p4[2]) - (p1[2] - p3[2]) * (p3[1] - p4[1])
        u == -((p1[1] - p2[1]) * (p1[2] - p3[2]) - (p1[2] - p2[2]) * (p1[1] - p3[1]))
    IN  IF denominator = 0 THEN None
        ELSE IF InUnitInterval(t, denominator) /\ InUnitInterval(u, denominator)
        THEN Some(<<Rat(p1[1] * denominator + t * (p2[1] - p1[1]), denominator),
                    Rat(p1[2] * denominator + t * (p2[2] - p1[2]), denominator)>>)
        ELSE None

\* dist_to_conflict1 / total_dist1 if total_dist1 > 0 else 0
TimeRatio(wp1_start, wp1_end, intersection) ==
    LET total_sq == (wp1_end.x - wp1_start.x) * (wp1_end.x - wp1_start.x)
                    + (wp1_end.y - wp1_start.y) * (wp1_end.y - wp1_start.y)
        ix == intersection[1]
        iy == intersection[2]
        ex == (ix[1] - wp1_start.x * ix[2]) * iy[2]
        ey == (iy[1] - wp1_start.y * iy[2]) * ix[2]
        sq == Rat(ex * ex + ey * ey, ix[2] * ix[2] * iy[2] * iy[2] * total_sq)
    IN  IF total_sq > 0 THEN <<ISqrt(sq[1]), ISqrt(sq[2])>> ELSE <<0, 1>>

\* mutant: the time into the segment is added to the segment's end
CalculateConflictTimeFromEnd(wp1_start, wp1_end, wp2_start, wp2_end, intersection) ==
    LET time_ratio1 == TimeRatio(wp1_start, wp1_end, intersection)
        time_diff1 == wp1_end.timestamp[1] - wp1_start.timestamp[1]
    IN  Rat(wp1_end.timestamp[1] * time_ratio1[2] + time_ratio1[1] * time_diff1,
            time_ratio1[2])

\* mutant: the time is interpolated between the other segment's timestamps
CalculateConflictTimeOfOther(wp1_start, wp1_end, wp2_start, wp2_end, intersection) ==
    LET time_ratio1 == TimeRatio(wp1_start, wp1_end, intersection)
        time_diff2 == wp2_end.timestamp[1] - wp2_start.timestamp[1]
    IN  Rat(wp2_start.timestamp[1] * time_ratio1[2] + time_ratio1[1] * time_diff2,
            time_ratio1[2])

_calculate_conflict_time(wp1_start, wp1_end, wp2_start, wp2_end, intersection) ==
    LET time_ratio1 == TimeRatio(wp1_start, wp1_end, intersection)
        time_diff1 == wp1_end.timestamp[1] - wp1_start.timestamp[1]
    IN  Rat(wp1_start.timestamp[1] * time_ratio1[2] + time_ratio1[1] * time_diff1,
            time_ratio1[2])

\* mutant: the altitude difference is counted when both waypoints have a z
CalculateDistance3D(wp1, wp2, point) ==
    LET dz == IF wp1.z # None /\ wp2.z # None THEN wp1.z[1] - wp2.z[1] ELSE 0
    IN  Sqrt((wp1.x - wp2.x) * (wp1.x - wp2.x) + (wp1.y - wp2.y) * (wp1.y - wp2.y)
             + dz * dz)

\* mutant: only the x coordinates are compared
CalculateDistanceAlongX(wp1, wp2, point) ==
    Sqrt((wp1.x - wp2.x) * (wp1.x - wp2.x))

_calculate_distance(wp1, wp2, point) ==
    Sqrt((wp1.x - wp2.x) * (wp1.x - wp2.x) + (wp1.y - wp2.y) * (wp1.y - wp2.y))

\* mutant: distance <= self.safety_buffer
WithinSafetyBufferInclusive(distance, buffer) ==
    buffer >= 0 /\ distance.sq <= buffer * buffer

\* mutant: the comparison turned round, distance >= self.safety_buffer
WithinSafetyBufferInverted(distance, buffer) == ~SurdLess(distance, buffer)

\* mutant: the squares are compared, distance ** 2 < self.safety_buffer ** 2
WithinSafetyBufferSquared(distance, buffer) == distance.sq < buffer * buffer

\* distance < self.safety_buffer
WithinSafetyBuffer(distance, buffer) == SurdLess(distance, buffer)

\* mutant: conflicts.insert(0, ...)
AppendConflictInFront(conflicts, c) == <<c>> \o conflicts

\* mutant: conflicts = mission_conflicts
ExtendConflictsOverwrite(conflicts, mission_conflicts) == mission_conflicts

\* conflicts.append(...) and conflicts.extend(...)
AppendConflict(conflicts, c) == Append(conflicts, c)

ExtendConflicts(conflicts, mission_conflicts) == conflicts \o mission_conflicts

\* waypoints[k] of the code (0-based)
Wp(mission, k) == mission.waypoints[k + 1]

\* range(len(mission.waypoints) - 1): the number of segments
NumSegments(mission) ==
    IF Len(mission.waypoints) = 0 THEN 0 ELSE Len(mission.waypoints) - 1

\* the inner loop's body for segments i of mission1 and j of mission2:
\* None, or the Conflict it appends
SegmentPair(buffer, mission1, mission2, i, j) ==
    LET wp1_start == Wp(mission1, i)
        wp1_end == Wp(mission1, i + 1)
        wp2_start == Wp(mission2, j)
        wp2_end == Wp(mission2, j + 1)
        conflict_point == _find_intersection(wp1_start, wp1_end, wp2_start, wp2_end)
        conflict_time == _calculate_conflict_time(wp1_start, wp1_end, wp2_start,
                                                  wp2_end, conflict_point[1])
        distance == _calculate_distance(wp1_start, wp2_start, conflict_point[1])
    IN  IF ~_check_temporal_overlap(wp1_start, wp1_end, wp2_start, wp2_end) THEN None
        ELSE IF conflict_point = None THEN None
        ELSE IF WithinSafetyBuffer(distance, buffer)
        THEN Some(Conflict(conflict_point[1], conflict_time, mission1.drone_id,
                           mission2.drone_id, distance))
        ELSE None

SegmentPairRaises(mission1, mission2, i, j) ==
    TemporalOverlapRaises(Wp(mission1, i), Wp(mission1, i + 1),
                          Wp(mission2, j), Wp(mission2, j + 1))

\* the two nested loops from their k-th iteration on (i = k div n2, j = k mod n2);
\* acc holds the conflicts so far and the index pair (i, j) that produced each
RECURSIVE PairLoop(_, _, _, _, _)
PairLoop(buffer, mission1, mission2, k, acc) ==
    LET n2 == NumSegments(mission2)
        i == k \div n2
        j == k % n2
        hit == SegmentPair(buffer, mission1, mission2, i, j)
    IN  IF k >= NumSegments(mission1) * n2 THEN acc
        ELSE IF SegmentPairRaises(mission1, mission2, i, j)
        THEN [raised |-> TRUE, conflicts |-> <<>>, origin |-> <<>>]
        ELSE IF hit = None
        THEN PairLoop(buffer, mission1, mission2, k + 1, acc)
        ELSE PairLoop(buffer, mission1, mission2, k + 1,
                      [raised |-> FALSE,
                       conflicts |-> AppendConflict(acc.conflicts, hit[1]),
                       origin |-> AppendConflict(acc.origin, <<i, j>>)])

\* mutant: a mission of one waypoint is tested as a point against the first
\* waypoint of the other mission
CheckMissionPairHoverHit(buffer, mission1, mission2) ==
    LET wp1 == Wp(mission1, 0)
        wp2 == Wp(mission2, 0)
        distance == _calculate_distance(wp1, wp2, None)
    IN  IF NumSegments(mission1) > 0 /\ NumSegments(mission2) > 0
        THEN PairLoop(buffer, mission1, mission2, 0,
                      [raised |-> FALSE, conflicts |-> <<>>, origin |-> <<>>])
        ELSE IF WithinSafetyBuffer(distance, buffer)
        THEN [raised |-> FALSE,
              conflicts |-> <<Conflict(<<Rat(wp1.x, 1), Rat(wp1.y, 1)>>, wp1.timestamp,
                                       mission1.drone_id, mission2.drone_id, distance)>>,
              origin |-> <<<<0, 0>>>>]
        ELSE [raised |-> FALSE, conflicts |-> <<>>, origin |-> <<>>]

_check_mission_pair(buffer, mission1, mission2) ==
    PairLoop(buffer, mission1, mission2, 0,
             [raised |-> FALSE, conflicts |-> <<>>, origin |-> <<>>])

\* mutant: the two returns exchanged
StatusOfInverted(conflicts) == IF conflicts # <<>> THEN "clear" ELSE "conflict detected"

\* return "conflict detected", conflicts / return "clear", []
StatusOf(conflicts) == IF conflicts # <<>> THEN "conflict detected" ELSE "clear"

---------------------------------------------------------------------------
(* The missions the detector is called with.  Every one satisfies what       *)
(* Mission.__post_init__ leaves behind: at least one waypoint, end_time      *)
(* after start_time, fully timestamped waypoints in ascending timestamp      *)
(* order, every timestamp inside the window.                                 *)

\* visualize_conflict_free_scenario: two parallel paths 100 m apart
ConflictFreePrimary ==
    Mission(<<Waypoint(0, 0, None, Some(0)), Waypoint(2, 0, None, Some(1)),
              Waypoint(4, 0, None, Some(2))>>, 0, 2, "primary")

ConflictFreeTraffic ==
    Mission(<<Waypoint(0, 2, None, Some(0)), Waypoint(2, 2, None, Some(1)),
              Waypoint(4, 2, None, Some(2))>>, 0, 2, "traffic1")

\* visualize_head_on_collision: the same line flown in opposite directions
HeadOnPrimary ==
    Mission(<<Waypoint(0, 2, None, Some(0)), Waypoint(2, 2, None, Some(1)),
              Waypoint(4, 2, None, Some(2))>>, 0, 2, "primary")

HeadOnTraffic ==
    Mission(<<Waypoint(4, 2, None, Some(0)), Waypoint(2, 2, None, Some(1)),
              Waypoint(0, 2, None, Some(2))>>, 0, 2, "traffic1")

\* the two-waypoint head-on pair: (0,100)@10:00 -> (200,100)@10:10 against
\* (200,100)@10:00 -> (0,100)@10:10
DirectPrimary ==
    Mission(<<Waypoint(0, 2, None, Some(0)), Waypoint(4, 2, None, Some(2))>>,
            0, 2, "primary")

DirectTraffic ==
    Mission(<<Waypoint(4, 2, None, Some(0)), Waypoint(0, 2, None, Some(2))>>,
            0, 2, "traffic1")

\* test_mission_creation: waypoints with an altitude (metres) and no timestamp
UntimedMission ==
    Mission(<<Waypoint(0, 0, Some(10), None), Waypoint(2, 2, Some(20), None),
              Waypoint(4, 0, Some(15), None)>>, 0, 12, "test_drone")

\* paths that cross the line y = 2 of HeadOnPrimary and DirectPrimary
CrossingTraffic ==
    Mission(<<Waypoint(2, 1, None, Some(0)), Waypoint(2, 3, None, Some(2))>>,
            0, 2, "traffic2")

ZigZagTraffic ==
    Mission(<<Waypoint(1, 1, None, Some(0)), Waypoint(1, 3, None, Some(1)),
              Waypoint(3, 1, None, Some(2))>>, 0, 2, "traffic3")

\* missions of one waypoint, at the same place at the same time
HoverTraffic == Mission(<<Waypoint(2, 2, None, Some(1))>>, 0, 2, "traffic4")

HoverPrimary == Mission(<<Waypoint(2, 2, None, Some(1))>>, 0, 2, "primary")

FleetPrimaries ==
    {ConflictFreePrimary, HeadOnPrimary, DirectPrimary, UntimedMission, HoverPrimary}

FleetOthers ==
    {ConflictFreeTraffic, HeadOnTraffic, DirectTraffic, UntimedMission,
     CrossingTraffic, ZigZagTraffic, HoverTraffic}

\* the sequences over S of length 0 .. n
SeqUpTo(S, n) == UNION {[1..k -> S] : k \in 0..n}

\* calls with several other missions of several segments
FleetCalls ==
    {[primary |-> p, others |-> os] : p \in FleetPrimaries,
                                      os \in SeqUpTo(FleetOthers, MaxOthers)}

\* every one-segment mission on the grid, timestamps ascending
GridWaypoints ==
    {Waypoint(x, y, None, Some(t)) : x \in 0..MaxCoord, y \in 0..MaxCoord, t \in 0..MaxT}

GridMissions(drone_id) ==
    {Mission(<<a, b>>, 0, MaxT, drone_id) :
        <<a, b>> \in {w \in GridWaypoints \X GridWaypoints :
                        w[1].timestamp[1] <= w[2].timestamp[1]}}

\* calls with one other mission, both of one segment
GridCalls ==
    {[primary |-> p, others |-> <<o>>] :
        p \in GridMissions("primary"), o \in GridMissions("traffic1")}

\* z: Optional[float], absent or any altitude up to the largest buffer
Altitudes == {None} \cup {Some(z) : z \in 0..MaxBuffer}

\* the mission with zs[n] for the z of its n-th waypoint
WithAltitudes(mission, zs) ==
    [mission EXCEPT !.waypoints =
        [n \in 1..Len(mission.waypoints) |-> [mission.waypoints[n] EXCEPT !.z = zs[n]]]]

AltitudeVariants(mission) ==
    {WithAltitudes(mission, zs) : zs \in [1..Len(mission.waypoints) -> Altitudes]}

\* one crossing flown at every combination of altitudes
AltitudeCalls ==
    {[primary |-> p, others |-> <<o>>] :
        p \in AltitudeVariants(DirectPrimary),
        o \in AltitudeVariants(CrossingTraffic) \cup AltitudeVariants(ZigZagTraffic)}

\* calls repeated on one detector
RepeatCalls ==
    {[primary |-> p, others |-> os] :
        p \in {HeadOnPrimary, DirectPrimary},
        os \in SeqUpTo({CrossingTraffic, ZigZagTraffic, UntimedMission}, MaxOthers)}

Calls == FleetCalls \cup GridCalls

Buffers == -1..MaxBuffer

\* no call in progress
NoMission == Mission(<<>>, 0, 0, "")

---------------------------------------------------------------------------
(* The detector: one ConflictDetector and the calls of check_mission on it *)

VARIABLES
    safety_buffer,     \* self.safety_buffer
    pc,                \* "idle", "loop" (inside check_mission), "returned", "raised"
    primary_mission,   \* check_mission's arguments
    other_missions,
    cursor,            \* the loop's position in other_missions (1-based)
    conflicts,         \* check_mission's list; after the return, the returned list
    origin,            \* for each entry of conflicts, the <<other, i, j>> that produced it
    status,            \* the returned status; "" before the return
    memo,              \* the arguments and the result of an earlier call, or None
    ctor,              \* the constructor or factory that ran last: "", "Waypoint",
                       \* "Mission" or "generate_mission_data"
    supplied,          \* the object as the caller supplied its fields; the arguments
    made               \* what the constructor's __post_init__ left behind; the result

detector_vars == <<safety_buffer, pc, primary_mission, other_missions, cursor,
                   conflicts, origin, status, memo>>

ctor_vars == <<ctor, supplied, made>>

vars == <<detector_vars, ctor_vars>>

\* ConflictDetector(safety_buffer)
Init ==
    /\ safety_buffer \in Buffers
    /\ pc = "idle"
    /\ primary_mission = NoMission
    /\ other_missions = <<>>
    /\ cursor = 0
    /\ conflicts = <<>>
    /\ origin = <<>>
    /\ status = ""
    /\ memo = None
    /\ ctor = ""
    /\ supplied = None
    /\ made = None

\* mutant: the list is an attribute of the detector that no call empties
EnterWithOldList(calls) ==
    /\ pc = "idle"
    /\ \E call \in calls :
          /\ primary_mission' = call.primary
          /\ other_missions' = call.others
    /\ pc' = "loop"
    /\ cursor' = 1
    /\ status' = ""
    /\ UNCHANGED <<safety_buffer, conflicts, origin, memo, ctor_vars>>

\* check_mission is entered with one of the calls: conflicts = []
EnterWith(calls) ==
    /\ pc = "idle"
    /\ \E call \in calls :
          /\ primary_mission' = call.primary
          /\ other_missions' = call.others
    /\ pc' = "loop"
    /\ cursor' = 1
    /\ conflicts' = <<>>
    /\ origin' = <<>>
    /\ status' = ""
    /\ UNCHANGED <<safety_buffer, memo, ctor_vars>>

Enter == EnterWith(Calls)

\* a call with missions that carry altitudes
EnterAltitude == EnterWith(AltitudeCalls)

\* mutant: the loop takes each mission off the caller's list
CheckOtherPopping ==
    LET r == _check_mission_pair(safety_buffer, primary_mission, other_missions[cursor])
    IN  /\ pc = "loop"
        /\ cursor <= Len(other_missions)
        /\ ~r.raised
        /\ conflicts' = ExtendConflicts(conflicts, r.conflicts)
        /\ origin' = ExtendConflicts(origin,
                        [n \in 1..Len(r.origin) |-> <<cursor, r.origin[n][1], r.origin[n][2]>>])
        /\ other_missions' = Tail(other_missions)
        /\ UNCHANGED <<safety_buffer, pc, primary_mission, cursor, status,
                       memo, ctor_vars>>

\* one turn of the loop over other_missions
CheckOther ==
    LET r == _check_mission_pair(safety_buffer, primary_mission, other_missions[cursor])
    IN  /\ pc = "loop"
        /\ cursor <= Len(other_missions)
        /\ ~r.raised
        /\ conflicts' = ExtendConflicts(conflicts, r.conflicts)
        /\ origin' = ExtendConflicts(origin,
                        [n \in 1..Len(r.origin) |-> <<cursor, r.origin[n][1], r.origin[n][2]>>])
        /\ cursor' = cursor + 1
        /\ UNCHANGED <<safety_buffer, pc, primary_mission, other_missions, status,
                       memo, ctor_vars>>

\* the turn ends in the TypeError of a comparison with None, which check_mission
\* does not catch
Raise ==
    /\ pc = "loop"
    /\ cursor <= Len(other_missions)
    /\ _check_mission_pair(safety_buffer, primary_mission, other_missions[cursor]).raised
    /\ pc' = "raised"
    /\ UNCHANGED <<safety_buffer, primary_mission, other_missions, cursor,
                   conflicts, origin, status, memo, ctor_vars>>

\* the loop is over: the status and the list are returned
Return ==
    /\ pc = "loop"
    /\ cursor > Len(other_missions)
    /\ pc' = "returned"
    /\ status' = StatusOf(conflicts)
    /\ UNCHANGED <<safety_buffer, primary_mission, other_missions, cursor,
                   conflicts, origin, memo, ctor_vars>>

\* the caller is done with the result (or the error); the detector keeps its buffer
Release ==
    /\ pc \in {"returned", "raised"}
    /\ pc' = "idle"
    /\ primary_mission' = NoMission
    /\ other_missions' = <<>>
    /\ cursor' = 0
    /\ conflicts' = <<>>
    /\ origin' = <<>>
    /\ status' = ""
    /\ UNCHANGED <<safety_buffer, memo, ctor_vars>>

Next ==
    \/ Enter
    \/ EnterAltitude
    \/ CheckOther
    \/ Raise
    \/ Return
    \/ Release

Spec == Init /\ [][Next]_vars

\* the same detector is called again while the caller holds on to what an
\* earlier call returned
EnterRepeat == EnterWith(RepeatCalls)

\* status, conflicts = detector.check_mission(...): the caller keeps the result
Keep ==
    /\ pc = "returned"
    /\ pc' = "idle"
    /\ memo' = Some([safety_buffer |-> safety_buffer, primary |-> primary_mission,
                     others |-> other_missions, status |-> status,
                     conflicts |-> conflicts])
    /\ UNCHANGED <<safety_buffer, primary_mission, other_missions, cursor,
                   conflicts, origin, status, ctor_vars>>

\* the caller goes on without the result, or after the error
Drop ==
    /\ pc \in {"returned", "raised"}
    /\ pc' = "idle"
    /\ UNCHANGED <<safety_buffer, primary_mission, other_missions, cursor,
                   conflicts, origin, status, memo, ctor_vars>>

NextRepeat ==
    \/ EnterRepeat
    \/ CheckOther
    \/ Raise
    \/ Return
    \/ Keep
    \/ Drop

SpecRepeat == Init /\ [][NextRepeat]_vars

---------------------------------------------------------------------------
(* The constructors of models/mission.py, called with arbitrary arguments *)

\* timestamps and window ends: the instants 0 .. MaxT + 1
Instants == 0..(MaxT + 1)

OptionalInstants == {None} \cup {Some(t) : t \in Instants}

\* waypoint lists as a caller supplies them, in any order, timestamped or not;
\* the n-th waypoint of the list is at x = n - 1
SuppliedWaypoints ==
    {[n \in 1..Len(ts) |-> Waypoint(n - 1, 0, None, ts[n])] :
        ts \in SeqUpTo(OptionalInstants, MaxWaypoints)}

InitModels == Init /\ safety_buffer = DefaultSafetyBuffer

\* Waypoint(x, y, z, timestamp)
NewWaypoint ==
    /\ ctor = ""
    /\ \E x, y \in -1..MaxCoord, z \in {None} \cup {Some(v) : v \in -1..MaxCoord},
          timestamp \in OptionalInstants :
          LET self == Waypoint(x, y, z, timestamp)
          IN  /\ supplied' = self
              /\ made' = [error |-> WaypointPostInit(self)]
    /\ ctor' = "Waypoint"
    /\ UNCHANGED detector_vars

\* Mission(waypoints, start_time, end_time, drone_id)
NewMission ==
    /\ ctor = ""
    /\ \E waypoints \in SuppliedWaypoints, start_time, end_time \in Instants :
          LET self == Mission(waypoints, start_time, end_time, "drone")
          IN  /\ supplied' = self
              /\ made' = MissionPostInit(self)
    /\ ctor' = "Mission"
    /\ UNCHANGED detector_vars

\* the caller is done with the object (or the ValueError)
Discard ==
    /\ ctor # ""
    /\ ctor' = ""
    /\ supplied' = None
    /\ made' = None
    /\ UNCHANGED detector_vars

NextModels ==
    \/ NewWaypoint
    \/ NewMission
    \/ Discard

SpecModels == InitModels /\ [][NextModels]_vars

---------------------------------------------------------------------------
(* data/data_loader.py: generate_mission_data.  Instants and durations are   *)
(* whole microseconds, the resolution of datetime and timedelta; now is 0.   *)

\* timedelta / int: the quotient rounded to a whole microsecond, a half to the
\* even neighbour
TimedeltaDiv(td, k) ==
    LET q == td \div k
        r == td % k
    IN  IF 2 * r < k THEN q
        ELSE IF 2 * r > k THEN q + 1
        ELSE IF q % 2 = 0 THEN q ELSE q + 1

\* random.uniform(lo, hi) on the grid
RandomUniform(lo, hi) == lo..hi

\* _generate_drone_mission with the waypoint (x, y, z) drawn: the message of the
\* ValueError of Mission(...) ("" when there is none) and the mission
_generate_drone_mission(drone_id, start_time, duration, draw, num_waypoints) ==
    LET end_time == start_time + duration
        time_step == TimedeltaDiv(duration, num_waypoints - 1)
        waypoints == [n \in 1..num_waypoints |->
                         Waypoint(draw[1], draw[2], Some(draw[3]),
                                  Some(start_time + time_step * (n - 1)))]
        self == Mission(waypoints, start_time, end_time, drone_id)
        post == MissionPostInit(self)
    IN  [error |-> post.error, mission |-> [self EXCEPT !.waypoints = post.waypoints]]

\* generate_mission_data: the primary mission, then traffic drone k starting at
\* now + time_buffer * k; the first ValueError ends the call
generate_mission_data(args, now, draw) ==
    LET primary == _generate_drone_mission("primary_drone", now, args.mission_duration,
                                           draw, args.waypoints_per_drone)
        others == [k \in 1..args.num_traffic_drones |->
                      _generate_drone_mission(<<"traffic_drone", k>>,
                                              now + args.time_buffer * k,
                                              args.mission_duration, draw,
                                              args.waypoints_per_drone)]
    IN  IF primary.error # ""
        THEN [error |-> primary.error, primary |-> None, others |-> <<>>]
        ELSE IF \E k \in 1..Len(others) : others[k].error # ""
        THEN [error |-> others[CHOOSE k \in 1..Len(others) : others[k].error # ""].error,
              primary |-> None, others |-> <<>>]
        ELSE [error |-> "", primary |-> primary.mission,
              others |-> [k \in 1..Len(others) |-> others[k].mission]]

\* DataLoader.generate_mission_data(...) with at least two waypoints per drone
Generate ==
    /\ ctor = ""
    /\ \E num_traffic_drones \in 0..MaxOthers, waypoints_per_drone \in 2..MaxWaypoints,
          mission_duration \in 1..MaxDuration, time_buffer \in 0..MaxTimeBuffer,
          x, y \in RandomUniform(0, MaxCoord), z \in RandomUniform(0, MaxCoord) :
          LET args == [num_traffic_drones |-> num_traffic_drones,
                       waypoints_per_drone |-> waypoints_per_drone,
                       area_size |-> MaxCoord, min_altitude |-> 0,
                       max_altitude |-> MaxCoord,
                       mission_duration |-> mission_duration,
                       time_buffer |-> time_buffer]
          IN  /\ supplied' = args
              /\ made' = generate_mission_data(args, 0, <<x, y, z>>)
    /\ ctor' = "generate_mission_data"
    /\ UNCHANGED detector_vars

NextGenerate ==
    \/ Generate
    \/ Discard

SpecGenerate == InitModels /\ [][NextGenerate]_vars

---------------------------------------------------------------------------
\* The intersection point as the interpreter computes it.  Everywhere else in
\* this module a quotient is exact; Python's float is a binary floating-point
\* number whose every operation rounds to the nearest representable value,
\* ties to the even mantissa.  Here the width of the mantissa is a bound
\* (a float has 53 bits), a float is the fraction it stands for, and the
\* coordinates are whole numbers of metres from 0 to MaxFloatCoord.

MantissaBits == 10
MaxFloatCoord == 11

RECURSIVE Pow2(_)
Pow2(k) == IF k = 0 THEN 1 ELSE 2 * Pow2(k - 1)

\* a / d scaled by a power of two into [2^(MantissaBits-1), 2^MantissaBits):
\* <<a', d', e>> with a / d = (a' / d') * 2^e
RECURSIVE Normalize(_, _, _)
Normalize(a, d, e) ==
    IF a >= Pow2(MantissaBits) * d THEN Normalize(a, 2 * d, e + 1)
    ELSE IF a < Pow2(MantissaBits - 1) * d THEN Normalize(2 * a, d, e - 1)
    ELSE <<a, d, e>>

\* the float nearest to the fraction q, ties to even
Fl(q) ==
    IF q[1] = 0 THEN Rat(0, 1)
    ELSE LET s == IF q[1] < 0 THEN -1 ELSE 1
             n == Normalize(Abs(q[1]), q[2], 0)
             m == n[1] \div n[2]
             r == n[1] % n[2]
             up == 2 * r > n[2] \/ (2 * r = n[2] /\ m % 2 = 1)
             mantissa == IF up THEN m + 1 ELSE m
         IN  IF n[3] >= 0 THEN Rat(s * mantissa * Pow2(n[3]), 1)
             ELSE Rat(s * mantissa, Pow2(-n[3]))

\* a + b, a - b, a * b, a / b of floats, and -a
FloatAdd(a, b) == Fl(Rat(a[1] * b[2] + b[1] * a[2], a[2] * b[2]))
FloatSub(a, b) == Fl(Rat(a[1] * b[2] - b[1] * a[2], a[2] * b[2]))
FloatMul(a, b) == Fl(Rat(a[1] * b[1], a[2] * b[2]))
FloatDiv(a, b) == Fl(Rat(a[1] * b[2], a[2] * b[1]))
FloatNeg(a) == <<-a[1], a[2]>>

\* 0 <= t <= 1 of a float
FloatInUnitInterval(t) == 0 <= t[1] /\ t[1] <= t[2]

\* _find_intersection on points <<x, y>> of floats, each operation rounded in
\* the order the expression evaluates it
FloatFindIntersection(p1, p2, p3, p4) ==
    LET denominator ==
            FloatSub(FloatMul(FloatSub(p1[1], p2[1]), FloatSub(p3[2], p4[2])),
                     FloatMul(FloatSub(p1[2], p2[2]), FloatSub(p3[1], p4[1])))
        t == FloatDiv(
                 FloatSub(FloatMul(FloatSub(p1[1], p3[1]), FloatSub(p3[2], p4[2])),
                          FloatMul(FloatSub(p1[2], p3[2]), FloatSub(p3[1], p4[1]))),
                 denominator)
        u == FloatDiv(
                 FloatNeg(
                     FloatSub(FloatMul(FloatSub(p1[1], p2[1]), FloatSub(p1[2], p3[2])),
                              FloatMul(FloatSub(p1[2], p2[2]), FloatSub(p1[1], p3[1])))),
                 denominator)
    IN  IF denominator[1] = 0 THEN None
        ELSE IF FloatInUnitInterval(t) /\ FloatInUnitInterval(u)
        THEN Some(<<FloatAdd(p1[1], FloatMul(t, FloatSub(p2[1], p1[1]))),
                    FloatAdd(p1[2], FloatMul(t, FloatSub(p2[2], p1[2])))>>)
        ELSE None

\* a point with whole coordinates
FloatPoint(x, y) == <<Rat(x, 1), Rat(y, 1)>>

\* one call of _find_intersection: a primary segment leaving the x axis and
\* an other segment that runs straight up from the x axis
Intersect ==
    /\ ctor = ""
    /\ \E x1, x2, y2, x3 \in 0..MaxFloatCoord :
          LET p1 == FloatPoint(x1, 0)
              p2 == FloatPoint(x2, y2)
              p3 == FloatPoint(x3, 0)
              p4 == FloatPoint(x3, MaxFloatCoord)
          IN  /\ supplied' = <<p1, p2, p3, p4>>
              /\ made' = [error |-> "", point |-> FloatFindIntersection(p1, p2, p3, p4)]
    /\ ctor' = "_find_intersection"
    /\ UNCHANGED detector_vars

NextFloat ==
    \/ Intersect
    \/ Discard

SpecFloat == InitModels /\ [][NextFloat]_vars

---------------------------------------------------------------------------
(* Vocabulary of the properties *)

Returned == pc = "returned"

\* the <<other, i, j>> of every pair of segments the call compares
SegmentPairs ==
    UNION {{<<k, i, j>> : i \in 0..(NumSegments(primary_mission) - 1),
                          j \in 0..(NumSegments(other_missions[k]) - 1)} :
           k \in 1..Len(other_missions)}

Reported(pair) == \E n \in 1..Len(origin) : origin[n] = pair

\* the four waypoints of a pair: A0 -> A1 on the primary, B0 -> B1 on the other
A0(pair) == Wp(primary_mission, pair[2])

A1(pair) == Wp(primary_mission, pair[2] + 1)

B0(pair) == Wp(other_missions[pair[1]], pair[3])

B1(pair) == Wp(other_missions[pair[1]], pair[3] + 1)

Timed(pair) ==
    /\ A0(pair).timestamp # None
    /\ A1(pair).timestamp # None
    /\ B0(pair).timestamp # None
    /\ B1(pair).timestamp # None

T(wp) == wp.timestamp[1]

\* (P1x-P2x)(P3y-P4y) - (P1y-P2y)(P3x-P4x) of a pair
Denom(pair) ==
    (A0(pair).x - A1(pair).x) * (B0(pair).y - B1(pair).y)
    - (A0(pair).y - A1(pair).y) * (B0(pair).x - B1(pair).x)

\* the squared distance of the two start waypoints
StartDistSq(pair) ==
    (A0(pair).x - B0(pair).x) * (A0(pair).x - B0(pair).x)
    + (A0(pair).y - B0(pair).y) * (A0(pair).y - B0(pair).y)

Intersects(pair) == _find_intersection(A0(pair), A1(pair), B0(pair), B1(pair)) # None

FullyTimed(mission) ==
    \A n \in 1..Len(mission.waypoints) : mission.waypoints[n].timestamp # None

---------------------------------------------------------------------------
(* C1 *)

\* The positions <<xnum, ynum, den>> (the point (xnum/den, ynum/den)) a fully
\* timestamped mission schedules for the instant h/2, by linear interpolation
\* between consecutive waypoints; a waypoint is scheduled for its own timestamp.
PositionsAt(mission, h) ==
    {<<2 * mission.waypoints[n].x, 2 * mission.waypoints[n].y, 2>> :
        n \in {n \in 1..Len(mission.waypoints) : 2 * T(mission.waypoints[n]) = h}}
    \cup
    {LET a == mission.waypoints[n]
         b == mission.waypoints[n + 1]
         den == 2 * (T(b) - T(a))
     IN  <<a.x * den + (h - 2 * T(a)) * (b.x - a.x),
           a.y * den + (h - 2 * T(a)) * (b.y - a.y), den>> :
        n \in {n \in 1..(Len(mission.waypoints) - 1) :
                  /\ T(mission.waypoints[n]) < T(mission.waypoints[n + 1])
                  /\ 2 * T(mission.waypoints[n]) <= h
                  /\ h <= 2 * T(mission.waypoints[n + 1])}}

\* two positions are closer than the buffer
Closer(p, q, buffer) ==
    LET dx == p[1] * q[3] - q[1] * p[3]
        dy == p[2] * q[3] - q[2] * p[3]
    IN  buffer > 0 /\ dx * dx + dy * dy < buffer * buffer * p[3] * p[3] * q[3] * q[3]

\* at some instant h/2 both missions schedule, the drones are closer than the buffer
ComeClose(mission1, mission2, buffer) ==
    \E h \in 0..(2 * mission1.end_time) :
        \E p \in PositionsAt(mission1, h), q \in PositionsAt(mission2, h) :
            Closer(p, q, buffer)

\* C1: after the return, every fully timestamped other mission that comes
\* closer to the fully timestamped primary than safety_buffer, at an instant
\* both schedule, has at least one conflict in the list.
C1_EveryProximityReported ==
    Returned =>
        \A k \in 1..Len(other_missions) :
            (/\ FullyTimed(primary_mission)
             /\ FullyTimed(other_missions[k])
             /\ ComeClose(primary_mission, other_missions[k], safety_buffer))
            => \E n \in 1..Len(origin) : origin[n][1] = k

\* the failing input: the head-on pair on the line y = 100 m under the default
\* buffer; the drones meet at (100, 100) at 10:05 and the call returns "clear"
C1_HeadOnMissed ==
    /\ Returned
    /\ safety_buffer = DefaultSafetyBuffer
    /\ primary_mission = DirectPrimary
    /\ other_missions = <<DirectTraffic>>
    /\ \E p \in PositionsAt(primary_mission, 2), q \in PositionsAt(other_missions[1], 2) :
          p = q /\ p[1] = 2 * p[3] /\ p[2] = 2 * p[3]
    /\ status = "clear"

---------------------------------------------------------------------------
(* C2 *)

\* C2: whenever check_mission returns, the status is "clear" exactly when the
\* returned list is empty and "conflict detected" exactly when it is not; it is
\* never any other value.
C2_StatusMatchesConflicts ==
    Returned =>
        /\ status \in {"clear", "conflict detected"}
        /\ (status = "clear") <=> (Len(conflicts) = 0)
        /\ (status = "conflict detected") <=> (Len(conflicts) > 0)

\* a call of two other missions has returned "conflict detected"
C2_Witness ==
    /\ Returned
    /\ Len(other_missions) = 2
    /\ status = "conflict detected"
    /\ Len(conflicts) > 0

---------------------------------------------------------------------------
(* C3 *)

\* C3: no conflict in the list comes from a pair of segments whose time
\* intervals are disjoint (A1.t < B0.t or B1.t < A0.t), whatever the coordinates
\* and the safety buffer.
C3_DisjointInTimeNeverReported ==
    \A n \in 1..Len(origin) :
        LET pair == origin[n]
        IN  ~(Timed(pair) /\ (T(A1(pair)) < T(B0(pair)) \/ T(B1(pair)) < T(A0(pair))))

\* a returned call held a pair disjoint in time whose segments cross with start
\* waypoints closer than the buffer: only the temporal test kept it out
C3_Witness ==
    /\ Returned
    /\ \E pair \in SegmentPairs :
          /\ Timed(pair)
          /\ T(B1(pair)) < T(A0(pair))
          /\ Intersects(pair)
          /\ safety_buffer > 0
          /\ StartDistSq(pair) < safety_buffer * safety_buffer
          /\ ~Reported(pair)

---------------------------------------------------------------------------
(* C4 *)

\* C4: after the return, a pair that passes the temporal and the intersection
\* test is in the list if and only if the distance of its start waypoints is
\* strictly less than safety_buffer; a distance equal to the buffer is not.
C4_StrictSafetyTest ==
    Returned =>
        \A pair \in SegmentPairs :
            (/\ Timed(pair)
             /\ _check_temporal_overlap(A0(pair), A1(pair), B0(pair), B1(pair))
             /\ Intersects(pair))
            => /\ Reported(pair) <=>
                    (safety_buffer > 0
                     /\ StartDistSq(pair) < safety_buffer * safety_buffer)
               /\ StartDistSq(pair) = safety_buffer * safety_buffer => ~Reported(pair)

\* a pair that passes both tests at a distance equal to the buffer, unreported
C4_Witness ==
    /\ Returned
    /\ safety_buffer > 0
    /\ \E pair \in SegmentPairs :
          /\ Timed(pair)
          /\ _check_temporal_overlap(A0(pair), A1(pair), B0(pair), B1(pair))
          /\ Intersects(pair)
          /\ StartDistSq(pair) = safety_buffer * safety_buffer
          /\ ~Reported(pair)

---------------------------------------------------------------------------
(* C5 *)

\* a straight one-segment trajectory against a copy of itself under another id
IdenticalCopyCall ==
    /\ Len(other_missions) = 1
    /\ Len(primary_mission.waypoints) = 2
    /\ other_missions[1].waypoints = primary_mission.waypoints
    /\ other_missions[1].drone_id # primary_mission.drone_id

\* the two parallel paths 100 m apart of the conflict-free scenario
ParallelPathsCall ==
    /\ primary_mission = ConflictFreePrimary
    /\ other_missions = <<ConflictFreeTraffic>>

---------------------------------------------------------------------------
(* C6 *)

\* C6: under the default buffer the two-waypoint head-on call returns exactly
\* one conflict, at (100, 100), at 10:05:00, with distance 0.0, and the
\* three-waypoint head-on call of the visualization test returns
\* "conflict detected".
C6_HeadOnDetected ==
    (Returned /\ safety_buffer = DefaultSafetyBuffer) =>
        /\ (primary_mission = DirectPrimary /\ other_missions = <<DirectTraffic>>)
            => /\ Len(conflicts) = 1
               /\ conflicts[1].location = <<Rat(2, 1), Rat(2, 1)>>
               /\ conflicts[1].time = Rat(1, 1)
               /\ conflicts[1].distance = Sqrt(0)
        /\ (primary_mission = HeadOnPrimary /\ other_missions = <<HeadOnTraffic>>)
            => status = "conflict detected"

---------------------------------------------------------------------------
(* C7 *)

\* C7: after the return, a pair whose time intervals touch at one instant
\* (A1.t = B0.t or B1.t = A0.t) and that passes the intersection and the
\* safety-distance test is in the list.
C7_TouchingIntervalsOverlap ==
    Returned =>
        \A pair \in SegmentPairs :
            (/\ Timed(pair)
             /\ (T(A1(pair)) = T(B0(pair)) \/ T(B1(pair)) = T(A0(pair)))
             /\ Intersects(pair)
             /\ safety_buffer > 0
             /\ StartDistSq(pair) < safety_buffer * safety_buffer)
            => Reported(pair)

\* a reported pair whose intervals share exactly the instant A1.t = B0.t
C7_Witness ==
    /\ Returned
    /\ \E pair \in SegmentPairs :
          /\ Timed(pair)
          /\ T(A0(pair)) < T(A1(pair))
          /\ T(A1(pair)) = T(B0(pair))
          /\ T(B0(pair)) < T(B1(pair))
          /\ Reported(pair)

---------------------------------------------------------------------------
(* C8 *)

\* <<k, i, j>> before <<k2, i2, j2>>: other mission first, then primary segment,
\* then other segment
Before(a, b) ==
    \/ a[1] < b[1]
    \/ a[1] = b[1] /\ a[2] < b[2]
    \/ a[1] = b[1] /\ a[2] = b[2] /\ a[3] < b[3]

\* the sum over the first k other missions of
\* (len(primary.waypoints) - 1) * (len(other.waypoints) - 1)
RECURSIVE PairCount(_)
PairCount(k) ==
    IF k = 0 THEN 0
    ELSE PairCount(k - 1)
         + NumSegments(primary_mission) * NumSegments(other_missions[k])

\* C8: the list is ordered by the position of the other mission, then by primary
\* segment index, then by other segment index, strictly, so a triple contributes
\* at most one record (the record located at that pair's intersection), and the
\* list is never longer than the number of segment pairs.
C8_ListOrder ==
    /\ Len(origin) = Len(conflicts)
    /\ \A n \in 1..Len(origin) :
          /\ origin[n] \in SegmentPairs
          /\ Some(conflicts[n].location) =
                _find_intersection(A0(origin[n]), A1(origin[n]), B0(origin[n]), B1(origin[n]))
    /\ \A n \in 1..(Len(origin) - 1) : Before(origin[n], origin[n + 1])
    /\ Len(conflicts) <= PairCount(Len(other_missions))

\* a returned list with records of two other missions, two primary segments and
\* two segments of one other mission
C8_Witness ==
    /\ Returned
    /\ \E a, b, c, d \in 1..Len(origin) :
          /\ origin[a][1] < origin[d][1]
          /\ origin[a][1] = origin[b][1] /\ origin[a][2] = origin[b][2]
          /\ origin[a][3] < origin[b][3]
          /\ origin[b][1] = origin[c][1] /\ origin[b][2] < origin[c][2]

---------------------------------------------------------------------------
(* C9 *)

\* the list check_mission(primary, [other]) returns
SingleCall(buffer, primary, other) ==
    ExtendConflicts(<<>>, _check_mission_pair(buffer, primary, other).conflicts)

\* the lists of the single calls against others[1], ..., others[k], one after the other
RECURSIVE SingleCalls(_, _, _, _)
SingleCalls(buffer, primary, others, k) ==
    IF k = 0 THEN <<>>
    ELSE SingleCalls(buffer, primary, others, k - 1)
         \o SingleCall(buffer, primary, others[k])

\* C9: the list returned for [O1, ..., On] is the concatenation, in order, of
\* the lists returned for [O1], ..., [On]; a mission without a conflict adds
\* nothing and changes no entry of the others.
C9_PairwiseIndependent ==
    Returned =>
        conflicts = SingleCalls(safety_buffer, primary_mission, other_missions,
                                Len(other_missions))

\* a returned call of two other missions whose first has no conflict with the
\* primary and whose second has one
C9_Witness ==
    /\ Returned
    /\ Len(other_missions) = 2
    /\ SingleCall(safety_buffer, primary_mission, other_missions[1]) = <<>>
    /\ SingleCall(safety_buffer, primary_mission, other_missions[2]) # <<>>
    /\ Len(conflicts) > 0

---------------------------------------------------------------------------
(* C10 *)

\* C10: every record carries the primary mission's drone_id as primary_drone and,
\* as conflicting_drone, the drone_id of the other mission whose segment
\* produced it.
C10_DroneIds ==
    \A n \in 1..Len(conflicts) :
        /\ n <= Len(origin)
        /\ conflicts[n].primary_drone = primary_mission.drone_id
        /\ conflicts[n].conflicting_drone = other_missions[origin[n][1]].drone_id

\* a returned list with records of two other missions of different drone_ids
C10_Witness ==
    /\ Returned
    /\ \E a, b \in 1..Len(conflicts) :
          /\ conflicts[a].conflicting_drone # conflicts[b].conflicting_drone
          /\ conflicts[a].primary_drone # conflicts[a].conflicting_drone

---------------------------------------------------------------------------
\* C11: a mission of one waypoint never conflicts.  A call whose primary has
\* one waypoint does not raise, keeps its list empty and returns "clear"; no
\* record comes from an other mission of one waypoint; a call with no other
\* missions returns ("clear", []).
C11_SingleWaypointNeverConflicts ==
    /\ Len(primary_mission.waypoints) = 1 =>
          /\ pc # "raised"
          /\ conflicts = <<>>
          /\ Returned => status = "clear"
    /\ \A n \in 1..Len(origin) : Len(other_missions[origin[n][1]].waypoints) # 1
    /\ (Returned /\ other_missions = <<>>) => (status = "clear" /\ conflicts = <<>>)

\* a one-waypoint primary has returned from a call whose others hold a mission
\* of one waypoint at the primary's own place and time, inside the buffer, and a
\* mission of several segments
C11_Witness ==
    /\ Returned
    /\ Len(primary_mission.waypoints) = 1
    /\ safety_buffer > 0
    /\ \E k, l \in 1..Len(other_missions) :
          /\ other_missions[k].waypoints = primary_mission.waypoints
          /\ Len(other_missions[l].waypoints) > 2

---------------------------------------------------------------------------
\* C12: check_mission is total over constructed missions: a call whose primary
\* and other missions are all missions the constructors return, timestamped
\* or not, never ends in an error.
C12_NeverRaises ==
    pc = "raised" =>
        \/ ~Constructed(primary_mission)
        \/ \E k \in 1..Len(other_missions) : ~Constructed(other_missions[k])

\* the call of the failing input has ended in the TypeError: the mission of
\* test_mission_creation against a timestamped mission
C12_UntimedRaised ==
    /\ pc = "raised"
    /\ primary_mission = UntimedMission
    /\ other_missions = <<DirectTraffic>>

---------------------------------------------------------------------------
\* C13: a call returns what an earlier call on the same detector returned for
\* the same safety buffer, primary mission and other missions: the same status
\* and the same list, record by record, whatever calls came in between.
C13_SameArgumentsSameResult ==
    (/\ Returned
     /\ memo # None
     /\ memo[1].safety_buffer = safety_buffer
     /\ memo[1].primary = primary_mission
     /\ memo[1].others = other_missions)
    => (memo[1].status = status /\ memo[1].conflicts = conflicts)

\* a call with several records has returned for the second time
C13_Witness ==
    /\ Returned
    /\ memo # None
    /\ memo[1].primary = primary_mission
    /\ memo[1].others = other_missions
    /\ Len(other_missions) > 1
    /\ Len(conflicts) > 1

---------------------------------------------------------------------------
\* C14: no step of check_mission changes the primary mission, the list of other
\* missions or any mission in it (waypoints, their order and fields, start_time,
\* end_time, drone_id), and no step at all changes the detector's safety_buffer.
C14_InputsAndDetectorUnchanged ==
    [][/\ safety_buffer' = safety_buffer
       /\ pc = "loop" => /\ primary_mission' = primary_mission
                         /\ other_missions' = other_missions]_vars

\* a call over a primary of several segments and several other missions has run
\* through and reported
C14_Witness ==
    /\ Returned
    /\ Len(primary_mission.waypoints) > 2
    /\ Len(other_missions) > 1
    /\ cursor > Len(other_missions)
    /\ conflicts # <<>>

---------------------------------------------------------------------------
\* C15: Mission construction raises exactly when the waypoint list is empty, or
\* end_time is not after start_time, or a waypoint has a timestamp before
\* start_time or after end_time; nothing else, and no waypoint without a
\* timestamp, makes it raise.
C15_MissionFailsExactlyWhen ==
    ctor = "Mission" =>
        (made.error # "" <=>
            \/ supplied.waypoints = <<>>
            \/ supplied.end_time < supplied.start_time
            \/ supplied.end_time = supplied.start_time
            \/ \E n \in 1..Len(supplied.waypoints) :
                  /\ supplied.waypoints[n].timestamp # None
                  /\ \/ supplied.waypoints[n].timestamp[1] < supplied.start_time
                     \/ supplied.waypoints[n].timestamp[1] > supplied.end_time)

\* a mission was constructed from a waypoint at start_time, a waypoint at
\* end_time and a waypoint without timestamp
C15_Witness ==
    /\ ctor = "Mission"
    /\ made.error = ""
    /\ \E a, b, c \in 1..Len(supplied.waypoints) :
          /\ supplied.waypoints[a].timestamp = Some(supplied.start_time)
          /\ supplied.waypoints[b].timestamp = Some(supplied.end_time)
          /\ supplied.waypoints[c].timestamp = None

---------------------------------------------------------------------------
\* C16: after a successful Mission construction from fully timestamped
\* waypoints, the list is a permutation of the supplied one in non-decreasing
\* timestamp order in which waypoints of equal timestamp keep their supplied
\* order; if a waypoint has no timestamp, the list is as supplied.
C16_SortedStablyOrUntouched ==
    (ctor = "Mission" /\ made.error = "") =>
        LET old == supplied.waypoints
            new == made.waypoints
            n == Len(old)
        IN  IF \A k \in 1..n : old[k].timestamp # None
            THEN /\ Len(new) = n
                 /\ \E f \in [1..n -> 1..n] :
                       /\ \A k \in 1..n : new[k] = old[f[k]]
                       /\ \A k, l \in 1..n : k < l => f[k] # f[l]
                       /\ \A k, l \in 1..n :
                             (k < l /\ new[k].timestamp = new[l].timestamp) => f[k] < f[l]
                 /\ \A k \in 1..(n - 1) : new[k].timestamp[1] <= new[k + 1].timestamp[1]
            ELSE new = old

\* a mission was constructed from three timestamped waypoints supplied out of
\* order, two of them with the same timestamp
C16_Witness ==
    /\ ctor = "Mission"
    /\ made.error = ""
    /\ Len(supplied.waypoints) = 3
    /\ \A k \in 1..3 : supplied.waypoints[k].timestamp # None
    /\ made.waypoints # supplied.waypoints
    /\ \E k, l \in 1..3 :
          k # l /\ supplied.waypoints[k].timestamp = supplied.waypoints[l].timestamp

---------------------------------------------------------------------------
\* C17: Waypoint construction raises exactly when x < 0, or y < 0, or z is
\* present and z < 0; the timestamp plays no part.
C17_WaypointFailsExactlyWhen ==
    ctor = "Waypoint" =>
        (made.error # "" <=>
            \/ supplied.x < 0
            \/ supplied.y < 0
            \/ supplied.z \in {Some(v) : v \in -MaxCoord..-1})

\* Waypoint(0, 0, 0) was constructed, with no timestamp
C17_Witness ==
    /\ ctor = "Waypoint"
    /\ made.error = ""
    /\ supplied = Waypoint(0, 0, Some(0), None)

---------------------------------------------------------------------------
\* where the other drone of a pair is on its segment at the instant tau = n/d,
\* flying it at constant speed: <<x * den, y * den, den>>
OtherPositionsAt(pair, tau) ==
    LET b0 == B0(pair)
        b1 == B1(pair)
        den == tau[2] * (T(b1) - T(b0))
        run == tau[1] - tau[2] * T(b0)
    IN  IF T(b0) = T(b1)
        THEN {<<b.x, b.y, 1>> : b \in {b \in {b0, b1} : tau = Rat(T(b), 1)}}
        ELSE {<<b0.x * den + run * (b1.x - b0.x), b0.y * den + run * (b1.y - b0.y), den>> :
                 ok \in {ok \in {TRUE} : 0 <= run /\ run <= den}}

\* the squared distance of a location <<x, y>> (fractions) and a position is sq
SeparationSqIs(location, q, sq) ==
    LET dxn == location[1][1] * q[3] - q[1] * location[1][2]
        dxd == location[1][2] * q[3]
        dyn == location[2][1] * q[3] - q[2] * location[2][2]
        dyd == location[2][2] * q[3]
    IN  dxn * dxn * dyd * dyd + dyn * dyn * dxd * dxd = sq * dxd * dxd * dyd * dyd

\* C18: the distance of every record is the separation of the two drones at the
\* reported crossing: the distance between the reported location, where the
\* primary drone is at the reported time, and the place of the other drone on
\* its segment at that time.
C18_DistanceIsSeparationAtConflict ==
    \A n \in 1..Len(conflicts) :
        n <= Len(origin) =>
            \A q \in OtherPositionsAt(origin[n], conflicts[n].time) :
                SeparationSqIs(conflicts[n].location, q, conflicts[n].distance.sq)

\* the failing input: two diagonals of one grid square flown over the same five
\* minutes; both drones are at the crossing (25, 25) at 10:02:30 and the record
\* says 50 m
C18_CrossingAtStartDistance ==
    /\ Returned
    /\ primary_mission.waypoints =
          <<Waypoint(0, 0, None, Some(0)), Waypoint(1, 1, None, Some(1))>>
    /\ other_missions[1].waypoints =
          <<Waypoint(0, 1, None, Some(0)), Waypoint(1, 0, None, Some(1))>>
    /\ Len(conflicts) = 1
    /\ conflicts[1].location = <<Rat(1, 2), Rat(1, 2)>>
    /\ conflicts[1].time = Rat(1, 2)
    /\ OtherPositionsAt(origin[1], conflicts[1].time) = {<<1, 1, 2>>}
    /\ conflicts[1].distance = Sqrt(1)

---------------------------------------------------------------------------
\* the mission with the z of every waypoint taken away
WithoutAltitude(mission) ==
    WithAltitudes(mission, [n \in 1..Len(mission.waypoints) |-> None])

HasAltitude(mission) ==
    \E n \in 1..Len(mission.waypoints) : mission.waypoints[n].z # None

\* C19: altitude does not influence detection.  A call that returns, returns
\* the status and the list of the call on the same missions without any z;
\* hence two calls that differ only in z values return the same.
C19_AltitudeIgnored ==
    (/\ Returned
     /\ \/ HasAltitude(primary_mission)
        \/ \E k \in 1..Len(other_missions) : HasAltitude(other_missions[k]))
    => LET flat == SingleCalls(safety_buffer, WithoutAltitude(primary_mission),
                               [k \in 1..Len(other_missions) |->
                                   WithoutAltitude(other_missions[k])],
                               Len(other_missions))
       IN  conflicts = flat /\ status = StatusOf(flat)

\* a crossing was reported between a primary at altitude 0 throughout and
\* another mission that starts at the top altitude and has a waypoint without z
C19_Witness ==
    /\ Returned
    /\ conflicts # <<>>
    /\ \A n \in 1..Len(primary_mission.waypoints) :
          primary_mission.waypoints[n].z = Some(0)
    /\ other_missions[1].waypoints[1].z = Some(MaxBuffer)
    /\ \E n \in 1..Len(other_missions[1].waypoints) :
          other_missions[1].waypoints[n].z = None

---------------------------------------------------------------------------
---------------------------------------------------------------------------
\* the numerators of the parameters t (along the primary segment) and u (along
\* the other segment) of a pair, over Denom(pair)
TNum(pair) ==
    (A0(pair).x - B0(pair).x) * (B0(pair).y - B1(pair).y)
    - (A0(pair).y - B0(pair).y) * (B0(pair).x - B1(pair).x)

UNum(pair) ==
    -((A0(pair).x - A1(pair).x) * (A0(pair).y - B0(pair).y)
      - (A0(pair).y - A1(pair).y) * (A0(pair).x - B0(pair).x))

\* 0 <= n / d <= 1 for d # 0, on the products
Between01(n, d) == 0 <= n * d /\ n * d <= d * d

\* the fraction q is from + (n / d) * (to - from)
IsAlong(q, from, to, n, d) == q[1] * d = q[2] * (from * d + n * (to - from))

\* C21: for every compared pair of non-parallel segments, _find_intersection
\* returns a point exactly when t and u are both in [0, 1], ends included; the
\* point is P1 + t (P2 - P1), which is also P3 + u (P4 - P3).
C21_IntersectionIffParametersInRange ==
    Returned =>
        \A pair \in SegmentPairs :
            LET d == Denom(pair)
                t == TNum(pair)
                u == UNum(pair)
                found == _find_intersection(A0(pair), A1(pair), B0(pair), B1(pair))
            IN  d # 0 =>
                    /\ found # None <=> (Between01(t, d) /\ Between01(u, d))
                    /\ found # None =>
                          /\ IsAlong(found[1][1], A0(pair).x, A1(pair).x, t, d)
                          /\ IsAlong(found[1][2], A0(pair).y, A1(pair).y, t, d)
                          /\ IsAlong(found[1][1], B0(pair).x, B1(pair).x, u, d)
                          /\ IsAlong(found[1][2], B0(pair).y, B1(pair).y, u, d)

\* a call compared a pair that touches only at the end of the primary segment
\* (t = 1), a pair that crosses inside both segments, and a non-parallel pair
\* whose lines meet outside one of the segments
C21_Witness ==
    /\ Returned
    /\ \E a, b, c \in SegmentPairs :
          /\ Denom(a) # 0 /\ TNum(a) = Denom(a) /\ Intersects(a)
          /\ Denom(b) # 0 /\ Intersects(b)
          /\ 0 < TNum(b) * Denom(b) /\ TNum(b) * Denom(b) < Denom(b) * Denom(b)
          /\ 0 < UNum(b) * Denom(b) /\ UNum(b) * Denom(b) < Denom(b) * Denom(b)
          /\ Denom(c) # 0 /\ ~Intersects(c)
          /\ ~Between01(TNum(c), Denom(c)) \/ ~Between01(UNum(c), Denom(c))

---------------------------------------------------------------------------
\* C22: the time of every record is A0.t + f (A1.t - A0.t) on the primary
\* segment that produced it, f being the fraction of that segment's length at
\* which the crossing lies (the parameter t of the pair); the timestamps of the
\* other segment do not enter.
C22_TimeFromPrimarySegment ==
    \A n \in 1..Len(conflicts) :
        n <= Len(origin) =>
            IsAlong(conflicts[n].time, T(A0(origin[n])), T(A1(origin[n])),
                    TNum(origin[n]), Denom(origin[n]))

\* a record of a crossing strictly inside a primary segment that takes time,
\* against another segment with other timestamps
C22_Witness ==
    /\ Returned
    /\ \E n \in 1..Len(origin) :
          /\ T(A0(origin[n])) < T(A1(origin[n]))
          /\ T(B0(origin[n])) # T(A0(origin[n]))
          /\ T(B0(origin[n])) < T(B1(origin[n]))
          /\ TNum(origin[n]) # 0
          /\ TNum(origin[n]) # Denom(origin[n])

---------------------------------------------------------------------------
\* a mission of args.waypoints_per_drone waypoints that starts at start_time,
\* lasts args.mission_duration and has waypoint i (from 0) at the rounded
\* i-fold time step, inside the window
Generated(mission, start_time, args) ==
    /\ mission.start_time = start_time
    /\ mission.end_time = start_time + args.mission_duration
    /\ Len(mission.waypoints) = args.waypoints_per_drone
    /\ \A n \in 1..Len(mission.waypoints) :
          /\ mission.start_time <= T(mission.waypoints[n])
          /\ T(mission.waypoints[n]) <= mission.end_time
          /\ LET step == T(mission.waypoints[n]) - T(mission.waypoints[1])
                 k == args.waypoints_per_drone - 1
             IN  \E q \in 0..args.mission_duration :
                    /\ step = (n - 1) * q
                    /\ 2 * Abs(q * k - args.mission_duration) <= k

\* C23: generate_mission_data with at least two waypoints per drone succeeds:
\* every mission has waypoints_per_drone waypoints, all inside its window,
\* there are num_traffic_drones other missions, and traffic drone k starts at
\* now + k * time_buffer.
C23_GenerationSucceeds ==
    ctor = "generate_mission_data" =>
        /\ made.error = ""
        /\ Generated(made.primary, 0, supplied)
        /\ Len(made.others) = supplied.num_traffic_drones
        /\ \A k \in 1..Len(made.others) :
              Generated(made.others[k], k * supplied.time_buffer, supplied)

\* the failing input in small: three waypoints over 3 microseconds; the step
\* 1.5 is rounded to 2 and the last waypoint lies at 4
C23_RoundedStepOvershoots ==
    /\ ctor = "generate_mission_data"
    /\ supplied.waypoints_per_drone = 3
    /\ supplied.mission_duration = 3
    /\ TimedeltaDiv(3, 2) * 2 = 4
    /\ made.error = "Waypoint timestamp must be within mission time window"

---------------------------------------------------------------------------
---------------------------------------------------------------------------
\* s is t with some entries left out
RECURSIVE IsSubsequence(_, _)
IsSubsequence(s, t) ==
    IF s = <<>> THEN TRUE
    ELSE IF t = <<>> THEN FALSE
    ELSE IF Head(s) = Head(t) THEN IsSubsequence(Tail(s), Tail(t))
    ELSE IsSubsequence(s, Tail(t))

\* the list of the same call on a detector with the next larger buffer
WithNextBuffer ==
    SingleCalls(safety_buffer + 1, primary_mission, other_missions, Len(other_missions))

\* C25: detection is monotone in the safety buffer.  The list a call returns is
\* a subsequence (same records, same order) of the list the same call returns
\* under the next larger buffer, and so, step by step, under every larger one;
\* "conflict detected" carries over to the larger buffer and "clear" to the
\* smaller.
C25_MonotoneInBuffer ==
    Returned =>
        LET larger == WithNextBuffer
        IN  /\ IsSubsequence(conflicts, larger)
            /\ status = "conflict detected" => StatusOf(larger) = "conflict detected"
            /\ StatusOf(larger) = "clear" => status = "clear"

\* a call has returned records that are fewer than, and not a front part of,
\* the records of the next larger buffer
C25_Witness ==
    /\ Returned
    /\ conflicts # <<>>
    /\ Len(conflicts) < Len(WithNextBuffer)
    /\ conflicts # SubSeq(WithNextBuffer, 1, Len(conflicts))

---------------------------------------------------------------------------
\* the fraction q is in [lo, hi]
FractionWithin(q, lo, hi) == lo * q[2] <= q[1] /\ q[1] <= hi * q[2]

---------------------------------------------------------------------------
\* the float v is between the floats a and b, whichever is the larger
FloatBetween(v, a, b) ==
    /\ \/ a[1] * v[2] <= v[1] * a[2]
       \/ b[1] * v[2] <= v[1] * b[2]
    /\ \/ v[1] * a[2] <= a[1] * v[2]
       \/ v[1] * b[2] <= b[1] * v[2]

\* C27: the point _find_intersection returns has its x and its y within the
\* coordinate ranges spanned by the endpoints of the primary segment and by
\* those of the other segment, and both coordinates are non-negative.
C27_LocationWithinBothSegments ==
    (ctor = "_find_intersection" /\ made.point # None) =>
        LET point == made.point[1]
        IN  /\ \A c \in 1..2 :
                  /\ FloatBetween(point[c], supplied[1][c], supplied[2][c])
                  /\ FloatBetween(point[c], supplied[3][c], supplied[4][c])
                  /\ point[c][1] >= 0

\* the segments cross at x = 5 and the point returned is left of the other
\* segment, which is the vertical line x = 5
C27_LeftOfOtherSegment ==
    /\ ctor = "_find_intersection"
    /\ supplied = <<FloatPoint(11, 0), FloatPoint(0, 1),
                    FloatPoint(5, 0), FloatPoint(5, MaxFloatCoord)>>
    /\ made.point # None
    /\ made.point[1][1][1] < 5 * made.point[1][1][2]

---------------------------------------------------------------------------
\* what check_mission(other, [primary]) returns on the same detector
Swapped == SingleCall(safety_buffer, other_missions[1], primary_mission)

\* how many records of a list have the location and the distance of record r
Occurrences(list, r) ==
    Cardinality({n \in 1..Len(list) :
                    list[n].location = r.location /\ list[n].distance = r.distance})

\* C28: for two fully timestamped missions, check_mission(A, [B]) and
\* check_mission(B, [A]) return equally many records with the same collection
\* of (location, distance) pairs, each as often in the one list as in the
\* other, and with primary_drone and conflicting_drone exchanged.
C28_RoleSwapPreservesDetection ==
    (/\ Returned
     /\ Len(other_missions) = 1
     /\ FullyTimed(primary_mission)
     /\ FullyTimed(other_missions[1]))
    => LET swapped == Swapped
       IN  /\ Len(swapped) = Len(conflicts)
           /\ \A n \in 1..Len(conflicts) :
                 Occurrences(swapped, conflicts[n]) = Occurrences(conflicts, conflicts[n])
           /\ \A n \in 1..Len(swapped) :
                 /\ Occurrences(conflicts, swapped[n]) = Occurrences(swapped, swapped[n])
                 /\ swapped[n].primary_drone = other_missions[1].drone_id
                 /\ swapped[n].conflicting_drone = primary_mission.drone_id
           /\ StatusOf(swapped) = status

\* a call against one mission has returned several records, one of which the
\* swapped call returns with another time
C28_Witness ==
    /\ Returned
    /\ Len(other_missions) = 1
    /\ FullyTimed(primary_mission)
    /\ FullyTimed(other_missions[1])
    /\ primary_mission.drone_id # other_missions[1].drone_id
    /\ Len(conflicts) > 1
    /\ \E n \in 1..Len(conflicts) :
          /\ conflicts[n].distance.sq > 0
          /\ \A m \in 1..Len(Swapped) :
                Swapped[m].location = conflicts[n].location =>
                    Swapped[m].time # conflicts[n].time

---------------------------------------------------------------------------
\* the segment from a to b has no length in the plane
Hovers(a, b) == a.x = b.x /\ a.y = b.y

\* the pair gets as far as the conflict time: its timestamps overlap and its
\* segments intersect
ReachesConflictTime(pair) ==
    /\ Timed(pair)
    /\ _check_temporal_overlap(A0(pair), A1(pair), B0(pair), B1(pair))
    /\ Intersects(pair)

---------------------------------------------------------------------------
\* new holds the waypoints of old in non-decreasing order of timestamp
AscendingPermutation(new, old) ==
    /\ Len(new) = Len(old)
    /\ \A n \in 1..Len(old) :
          Cardinality({m \in 1..Len(new) : new[m] = old[n]})
          = Cardinality({m \in 1..Len(old) : old[m] = old[n]})
    /\ \A n \in 1..(Len(new) - 1) : new[n].timestamp[1] <= new[n + 1].timestamp[1]

\* C30: Mission construction checks the empty list first, then end_time <=
\* start_time, then sorts, then checks the window.  A construction failing on
\* one of the first two checks leaves the supplied list in its order; one
\* failing on the window with all waypoints timestamped has left the list in
\* ascending timestamp order.
C30_ChecksInOrder ==
    ctor = "Mission" =>
        /\ supplied.waypoints = <<>> =>
              /\ made.error = "Mission must have at least one waypoint"
              /\ made.waypoints = supplied.waypoints
        /\ (supplied.waypoints # <<>> /\ supplied.end_time <= supplied.start_time) =>
              /\ made.error = "End time must be after start time"
              /\ made.waypoints = supplied.waypoints
        /\ made.error = "Waypoint timestamp must be within mission time window" =>
              /\ supplied.waypoints # <<>>
              /\ supplied.start_time < supplied.end_time
              /\ IF \A n \in 1..Len(supplied.waypoints) :
                       supplied.waypoints[n].timestamp # None
                 THEN AscendingPermutation(made.waypoints, supplied.waypoints)
                 ELSE made.waypoints = supplied.waypoints

\* a construction has failed on the window after reordering three timestamped
\* waypoints that were supplied out of order
C30_Witness ==
    /\ ctor = "Mission"
    /\ made.error = "Waypoint timestamp must be within mission time window"
    /\ Len(supplied.waypoints) = 3
    /\ \A n \in 1..3 : supplied.waypoints[n].timestamp # None
    /\ made.waypoints # supplied.waypoints
    /\ made.waypoints[1] = supplied.waypoints[3]

=============================================================================
